---- MODULE Spec2Model ----
(***************************************************************************)
(* A model of somfy_uai_plus_telnet.telnet_client.TelnetClient: the login  *)
(* negotiation done by _read_loop, the table of pending requests, and the  *)
(* asyncio tasks that share the client (the read loop of each session, the *)
(* callers of _async_send_request_and_await_response, of                   *)
(* async_wait_for_connection_establishment, of async_disconnect and of     *)
(* async_connect).  Every action is one run of a coroutine from one        *)
(* suspension point (an await that can yield) to the next.                 *)
(***************************************************************************)
EXTENDS Naturals, Sequences, FiniteSets, TLC

\* ------------------------------------------------------------------ bounds
\* Calls of async_connect in one behaviour.  The n-th call opens session n,
\* or fails and leaves session n without a read loop.
MaxConnects == 2

Sessions == 1..MaxConnects
Callers == {"c1", "c2", "c3"}
Waiters == {"w1"}
Disconnectors == {"d1", "d2"}

\* --------------------------------------------------------------- the wire
\* Text is a sequence of symbols.  The handshake tokens are spelled out
\* character by character; a JSON line is two fragments (the head with the
\* id, the body with the result or error member) followed by "\n".
USER_PROMPT == <<"U", "s", "e", "r", ":">>
PASSWORD_PROMPT == <<"P", "a", "s", "s", "w", "o", "r", "d", ":">>
CONNECTED_NOTIFICATION == <<"C", "o", "n", "n", "e", "c", "t", "e", "d", ":", "\n", "NUL">>

\* Python's None, as a value of a table entry's field.
None == "None"

\* The heads of a JSON object text and the id each carries (0: no "id" member).
HeadId == ("{" :> 0) @@ ("{id:1," :> 1) @@ ("{id:2," :> 2) @@ ("{id:3," :> 3)
\* The bodies of a JSON object text: the one further member, and its value as
\* json.loads returns it (JSON null is Python's None).
BodyMember ==
    ("result:null}" :> [key |-> "result", val |-> None]) @@
    ("result:0}" :> [key |-> "result", val |-> "0"]) @@
    ("error:null}" :> [key |-> "error", val |-> None]) @@
    ("error:busy}" :> [key |-> "error", val |-> "busy"]) @@
    ("other:1}" :> [key |-> "other", val |-> "1"])

\* json.loads of one line: the parsed object, or the exception it raises on
\* text that is not a JSON document (an empty line, half an object).
JsonLoads(line) ==
    IF Len(line) = 2 /\ line[1] \in DOMAIN HeadId /\ line[2] \in DOMAIN BodyMember
    THEN [ok |-> TRUE, id |-> HeadId[line[1]],
          key |-> BodyMember[line[2]].key, val |-> BodyMember[line[2]].val]
    ELSE [ok |-> FALSE, id |-> 0, key |-> "", val |-> None]

StartsWith(s, p) == Len(s) >= Len(p) /\ SubSeq(s, 1, Len(p)) = p
Drop(s, n) == SubSeq(s, n + 1, Len(s))

\* output.split("\n"): the pieces between the newlines, the last one being
\* the text after the final newline.
RECURSIVE SplitFrom(_, _, _)
SplitFrom(s, i, cur) ==
    IF i > Len(s) THEN <<cur>>
    ELSE IF s[i] = "\n" THEN <<cur>> \o SplitFrom(s, i + 1, <<>>)
    ELSE SplitFrom(s, i + 1, Append(cur, s[i]))
Split(s) == SplitFrom(s, 1, <<>>)

\* ------------------------------------------------------- the read loop's steps
\* What lines 116-135 decide from the two prompt flags and the buffered text:
\* the new flags and text, and what the loop does next ("send_user",
\* "send_password", "ready", "raise" with the exception, or "none").
Negotiate(upr, ppr, out) ==
    IF StartsWith(out, USER_PROMPT) THEN
        IF upr
        THEN [upr |-> upr, ppr |-> ppr, out |-> out, act |-> "raise",
              exc |-> "InvalidUserException"]
        ELSE [upr |-> TRUE, ppr |-> ppr, out |-> Drop(out, Len(USER_PROMPT)),
              act |-> "send_user", exc |-> None]
    ELSE IF StartsWith(out, PASSWORD_PROMPT) THEN
        IF ~upr
        THEN [upr |-> upr, ppr |-> ppr, out |-> out, act |-> "raise",
              exc |-> "Exception"]
        ELSE IF ppr
        THEN [upr |-> upr, ppr |-> ppr, out |-> out, act |-> "raise",
              exc |-> "InvalidPasswordException"]
        ELSE [upr |-> upr, ppr |-> TRUE, out |-> Drop(out, Len(PASSWORD_PROMPT)),
              act |-> "send_password", exc |-> None]
    ELSE IF StartsWith(out, CONNECTED_NOTIFICATION) THEN
        [upr |-> upr, ppr |-> ppr, out |-> Drop(out, Len(CONNECTED_NOTIFICATION)),
         act |-> "ready", exc |-> None]
    ELSE [upr |-> upr, ppr |-> ppr, out |-> out, act |-> "none", exc |-> None]

\* A ReaderClosedException: the session whose read loop made it and the
\* exception it wraps (None after end-of-stream).  NoException is the value
\* None of the field _reader_closed_exception.
NoException == [s |-> 0, inner |-> None]
ReaderClosedExceptionBare(s, inner) == [s |-> s, inner |-> None]
ReaderClosedException(s, inner) == [s |-> s, inner |-> inner]

\* A table entry {"event": Event()} as _add_request makes it.  The other
\* fields are history, not keys of the dict: the request id, the call of
\* async_connect it was issued after, whether the request was written to
\* the transport, how many times the entry was completed, and by what (a
\* "result" line, an "error" line, or "closed" by the loop of lines 167-170).
NewEntry(id, epoch) ==
    [event |-> FALSE, response |-> None, error_response |-> None,
     reader_closed_exception |-> NoException,
     id |-> id, epoch |-> epoch, written |-> FALSE, writes |-> 0, how |-> "none"]

\* The table without key id.
Pop(tbl, id) == [k \in DOMAIN tbl \ {id} |-> tbl[k]]

\* _set_response looking the entry up and leaving it in the table.
SetResponseKeep(tbl, ob, id, response, error_response, exc) ==
    IF id \in DOMAIN tbl
    THEN [tbl |-> tbl,
          ob |-> [ob EXCEPT ![tbl[id]] =
                    [@ EXCEPT !.response = response,
                              !.error_response = error_response,
                              !.reader_closed_exception = exc,
                              !.event = TRUE,
                              !.writes = @ + 1]]]
    ELSE [tbl |-> tbl, ob |-> ob]

\* _set_response: pop the entry and, when there was one, fill it in and set
\* its event.  tbl maps request ids to entries of the heap ob.
SetResponse(tbl, ob, id, response, error_response, exc) ==
    IF id \in DOMAIN tbl
    THEN [tbl |-> Pop(tbl, id),
          ob |-> [ob EXCEPT ![tbl[id]] =
                    [@ EXCEPT !.response = response,
                              !.error_response = error_response,
                              !.reader_closed_exception = exc,
                              !.event = TRUE,
                              !.writes = @ + 1]]]
    ELSE [tbl |-> tbl, ob |-> ob]

\* The entry of key id, if the table has one, is marked as completed by how.
\* This is history only: it changes no field the program reads.
Mark(tbl, ob, id, how) ==
    IF id \in DOMAIN tbl THEN [ob EXCEPT ![tbl[id]].how = how] ELSE ob

\* Lines 147-155 for one line, from the state st = [tbl, ob, exc, units]
\* left by the lines before it; a line after one that raised is not reached.
HandleLine(st, line) ==
    IF st.exc # None THEN st
    ELSE LET j == JsonLoads(line) IN
         IF ~j.ok THEN [st EXCEPT !.exc = "JSONDecodeError"]
         ELSE IF j.id = 0 THEN [st EXCEPT !.exc = "KeyError"]
         ELSE IF j.key = "result" THEN
              LET r == SetResponse(st.tbl, Mark(st.tbl, st.ob, j.id, "result"),
                                   j.id, j.val, None, NoException)
              IN [st EXCEPT !.tbl = r.tbl, !.ob = r.ob, !.units = Append(@, line)]
         ELSE IF j.key # "error" THEN [st EXCEPT !.exc = "KeyError"]
         ELSE LET r == SetResponse(st.tbl, Mark(st.tbl, st.ob, j.id, "error"),
                                   j.id, None, j.val, NoException)
              IN [st EXCEPT !.tbl = r.tbl, !.ob = r.ob, !.units = Append(@, line)]

RECURSIVE HandleLines(_, _, _)
HandleLines(st, lines, i) ==
    IF i > Len(lines) THEN st ELSE HandleLines(HandleLine(st, lines[i]), lines, i + 1)

\* Lines 139-155: the complete lines of the buffered text are dispatched in
\* order and the text after the last newline is kept.
DispatchLines(out, tbl, ob) ==
    LET pieces == Split(out)
        st == HandleLines([tbl |-> tbl, ob |-> ob, exc |-> None, units |-> <<>>],
                          SubSeq(pieces, 1, Len(pieces) - 1), 1)
    IN [out |-> pieces[Len(pieces)], tbl |-> st.tbl, ob |-> st.ob,
        exc |-> st.exc, units |-> st.units]

\* Lines 167-170: every key the table held when the loop began is given
\* the exception exc, in turn.
RECURSIVE DrainKeys(_, _, _, _)
DrainKeys(keys, tbl, ob, exc) ==
    IF keys = {} THEN [tbl |-> tbl, ob |-> ob]
    ELSE LET id == CHOOSE k \in keys : \A m \in keys : k <= m
             r == SetResponse(tbl, Mark(tbl, ob, id, "closed"), id, None, None, exc)
         IN DrainKeys(keys \ {id}, r.tbl, r.ob, exc)
Drain(tbl, ob, exc) == DrainKeys(DOMAIN tbl, tbl, ob, exc)

\* _async_get_response after the event is set (lines 210-219): what the
\* awaiting caller gets from the entry.  raise of None is a TypeError.
Outcome(entry) ==
    IF entry.response # None
    THEN [kind |-> "result", val |-> entry.response, exc |-> NoException]
    ELSE IF entry.error_response # None
    THEN [kind |-> "error_response", val |-> entry.error_response, exc |-> NoException]
    ELSE IF entry.reader_closed_exception # NoException
    THEN [kind |-> "connection_closed", val |-> None,
          exc |-> entry.reader_closed_exception]
    ELSE [kind |-> "TypeError", val |-> None, exc |-> NoException]

\* ------------------------------------------------------------------- state
VARIABLES
    \* the fields of the TelnetClient
    user_prompt_received, password_prompt_received, connection_negotiated,
    connection_negotiation_event,   \* Event: TRUE when set
    read_loop_finished,             \* Event: TRUE when set
    reader_closed_exception,
    next_request_id,
    responses_by_request_id,        \* request id -> index of its entry in objs
    writer,                         \* 0 for None, else the session whose writer it is
    \* the heap: the entry dicts made by _add_request, in order of creation
    objs,
    \* the tasks
    rl,          \* per session, the read loop: pc and the local output
    auto,        \* per session, the task made by create_task(self.async_disconnect())
    callers,     \* callers of _async_send_request_and_await_response
    waiters,     \* callers of async_wait_for_connection_establishment
    discs,       \* callers of async_disconnect
    conn,        \* the caller of async_connect: "idle" or "opening"
    \* history
    connects,    \* calls of async_connect so far
    cur,         \* the session the latest async_connect opened, 0 while it has none
    hist,        \* per session: what its read loop and its writer have done
    script, wire, trace   \* a scripted inbound stream, what is left of it, the units acted on

vars == <<user_prompt_received, password_prompt_received, connection_negotiated,
          connection_negotiation_event, read_loop_finished, reader_closed_exception,
          next_request_id, responses_by_request_id, writer, objs, rl, auto, callers,
          waiters, discs, conn, connects, cur, hist, script, wire, trace>>

flagVars == <<user_prompt_received, password_prompt_received>>
tableVars == <<next_request_id, responses_by_request_id, objs>>
streamVars == <<script, wire, trace>>

EmptyTable == [k \in {} |-> 0]
NoOutcome == [kind |-> "none", val |-> None, exc |-> NoException]

InitClient ==
    /\ user_prompt_received = FALSE
    /\ password_prompt_received = FALSE
    /\ connection_negotiated = FALSE
    /\ connection_negotiation_event = FALSE
    /\ read_loop_finished = FALSE
    /\ reader_closed_exception = NoException
    /\ next_request_id = 0
    /\ responses_by_request_id = EmptyTable
    /\ writer = 0
    /\ objs = <<>>
    /\ rl = [s \in Sessions |-> [pc |-> "none", output |-> <<>>]]
    /\ auto = [s \in Sessions |-> "none"]
    /\ callers = [c \in Callers |-> [pc |-> "idle", id |-> 0, own |-> 0, obj |-> 0,
                                     out |-> NoOutcome]]
    /\ waiters = [w \in Waiters |-> [pc |-> "idle", sess |-> 0, out |-> "none",
                                     exc |-> NoException, stale |-> FALSE,
                                     during_cb |-> FALSE, banner |-> FALSE,
                                     ended |-> FALSE]]
    /\ discs = [d \in Disconnectors |-> [pc |-> "idle", sess |-> 0, ret |-> "none"]]
    /\ conn = "idle"
    /\ connects = 0
    /\ cur = 0
    /\ hist = [s \in Sessions |-> [ready_calls |-> 0, disc_calls |-> 0, closes |-> 0,
                                   sent |-> <<>>, at_end |-> {},
                                   cause |-> [s |-> 0, inner |-> "None"]]]

Init ==
    /\ InitClient
    /\ script = <<>>
    /\ wire = <<>>
    /\ trace = <<>>

\* ------------------------------------------------------------ asyncio events
\* Event.set() on the negotiation event by the read loop of session s: every
\* task blocked in wait() is made runnable, and stays so whatever clear()
\* does later.  stale: the loop is not the current session's; during_cb: it
\* is not, and the current session's connection-ready callback is running.
WakeWaiters(s) ==
    [w \in Waiters |->
        IF waiters[w].pc = "blocked"
        THEN [waiters[w] EXCEPT !.pc = "woken",
                                !.stale = (s # cur),
                                !.during_cb = (cur # 0 /\ cur # s /\ rl[cur].pc = "ready_cb")]
        ELSE waiters[w]]

\* Event.set() on _read_loop_finished.
WakeDisconnectors ==
    [d \in Disconnectors |->
        IF discs[d].pc = "blocked" THEN [discs[d] EXCEPT !.pc = "woken"] ELSE discs[d]]

\* Objects the table refers to.
Pending(tbl) == {tbl[k] : k \in DOMAIN tbl}

\* A unit the read loop acted on is logged for a scripted stream only.
Logged(units) == IF script = <<>> THEN trace ELSE trace \o units

\* ------------------------------------------------------------ the read loop
\* Lines 157-166, from the break (ex = None: end-of-stream) or the except
\* clause to the await of the disconnected callback: the disconnect task is
\* made, the flag cleared, the finished event set, the cause recorded and
\* the callback called with it (the cause in the history of the session).  tbl is the table then.  The locals output
\* and exception are not read again, and are dropped.
LoopEnds(s, ex, out, tbl) ==
    /\ auto' = IF ex # None THEN [auto EXCEPT ![s] = "scheduled"] ELSE auto
    /\ connection_negotiated' = FALSE
    /\ read_loop_finished' = TRUE
    /\ discs' = WakeDisconnectors
    /\ reader_closed_exception' = ReaderClosedException(s, ex)
    /\ rl' = [rl EXCEPT ![s] = [pc |-> "disc_cb", output |-> <<>>]]
    /\ hist' = [hist EXCEPT ![s].disc_calls = @ + 1,
                            ![s].at_end = Pending(tbl),
                            ![s].cause = ReaderClosedException(s, ex)]

\* Lines 137-155 and back to the read at line 107, or out through the except
\* clause: the rest of one pass of the loop once the negotiation part is
\* over.  neg is _connection_negotiated as line 137 reads it.
DispatchAndLoop(s, neg, out) ==
    IF neg
    THEN LET r == DispatchLines(out, responses_by_request_id, objs) IN
         /\ responses_by_request_id' = r.tbl
         /\ objs' = r.ob
         /\ trace' = Logged(r.units)
         /\ IF r.exc # None
            THEN LoopEnds(s, r.exc, r.out, r.tbl)
            ELSE /\ rl' = [rl EXCEPT ![s].output = r.out, ![s].pc = "read"]
                 /\ UNCHANGED <<connection_negotiated, auto, read_loop_finished,
                                discs, reader_closed_exception, hist>>
    ELSE /\ rl' = [rl EXCEPT ![s].output = out, ![s].pc = "read"]
         /\ UNCHANGED <<connection_negotiated, responses_by_request_id, objs, trace,
                        auto, read_loop_finished, discs, reader_closed_exception,
                        hist>>

\* _async_send_command(credential, True) from the read loop: the write at
\* line 185 raises AttributeError when _writer is None.  The drain that
\* follows changes nothing the client or its tasks read, so the loop is taken
\* straight back to its read.
SendCredential(s, what, unit, out) ==
    IF writer = 0
    THEN /\ LoopEnds(s, "AttributeError", out, responses_by_request_id)
         /\ UNCHANGED trace
    ELSE /\ hist' = [hist EXCEPT ![writer].sent = Append(@, what)]
         /\ rl' = [rl EXCEPT ![s].output = out, ![s].pc = "read"]
         /\ trace' = Logged(<<unit>>)
         /\ UNCHANGED <<connection_negotiated, auto, read_loop_finished, discs,
                        reader_closed_exception>>

\* One pass of the loop body on a non-empty chunk: lines 107-160.
ReadChunk(s, chunk) ==
    /\ rl[s].pc = "read"
    /\ chunk # <<>>
    /\ LET out0 == rl[s].output \o chunk IN
       IF ~connection_negotiated
       THEN LET n == Negotiate(user_prompt_received, password_prompt_received, out0) IN
            /\ user_prompt_received' = n.upr
            /\ password_prompt_received' = n.ppr
            /\ UNCHANGED <<responses_by_request_id, objs>>
            /\ CASE n.act = "raise" ->
                      /\ LoopEnds(s, n.exc, n.out, responses_by_request_id)
                      /\ UNCHANGED trace
                 [] n.act = "send_user" -> SendCredential(s, "user", USER_PROMPT, n.out)
                 [] n.act = "send_password" ->
                      SendCredential(s, "password", PASSWORD_PROMPT, n.out)
                 [] n.act = "ready" ->
                      /\ connection_negotiated' = TRUE
                      /\ rl' = [rl EXCEPT ![s].output = n.out, ![s].pc = "ready_cb"]
                      /\ hist' = [hist EXCEPT ![s].ready_calls = @ + 1]
                      /\ trace' = Logged(<<CONNECTED_NOTIFICATION>>)
                      /\ UNCHANGED <<auto, read_loop_finished, discs,
                                     reader_closed_exception>>
                 [] OTHER ->
                      /\ rl' = [rl EXCEPT ![s].output = n.out]
                      /\ UNCHANGED <<connection_negotiated, auto, read_loop_finished,
                                     discs, reader_closed_exception, hist, trace>>
       ELSE /\ DispatchAndLoop(s, TRUE, out0)
            /\ UNCHANGED flagVars
    /\ UNCHANGED <<connection_negotiation_event, next_request_id, writer, callers,
                   waiters, conn, connects, cur, script>>

\* reader.read returns the empty string: lines 108-110, then 162-166.
ReadEOF(s) ==
    /\ rl[s].pc = "read"
    /\ wire = <<>>
    /\ LoopEnds(s, None, rl[s].output, responses_by_request_id)
    /\ UNCHANGED <<flagVars, connection_negotiation_event, tableVars, writer, callers,
                   waiters, conn, connects, cur, streamVars>>

\* The connection-ready callback returns and the loop goes straight back to
\* its read, as it would were line 137 an elif of the negotiation branch.
ReadyCallbackReturnsToRead(s) ==
    /\ rl[s].pc = "ready_cb"
    /\ connection_negotiation_event' = TRUE
    /\ waiters' = WakeWaiters(s)
    /\ rl' = [rl EXCEPT ![s].pc = "read"]
    /\ UNCHANGED <<flagVars, connection_negotiated, read_loop_finished,
                   reader_closed_exception, tableVars, writer, auto, callers, discs,
                   conn, connects, cur, hist, streamVars>>

\* The connection-ready callback returns: line 174, then lines 137-155 on
\* what is left of the chunk that held the banner.
ReadyCallbackReturns(s) ==
    /\ rl[s].pc = "ready_cb"
    /\ connection_negotiation_event' = TRUE
    /\ waiters' = WakeWaiters(s)
    /\ DispatchAndLoop(s, connection_negotiated, rl[s].output)
    /\ UNCHANGED <<flagVars, next_request_id, writer, callers, conn, connects, cur,
                   script, wire>>

\* The disconnected callback returns: line 178, then the loop of lines
\* 167-170 with the exception the field holds then.
DisconnectedCallbackReturns(s) ==
    /\ rl[s].pc = "disc_cb"
    /\ connection_negotiation_event' = TRUE
    /\ waiters' = WakeWaiters(s)
    /\ LET r == Drain(responses_by_request_id, objs, reader_closed_exception) IN
       /\ responses_by_request_id' = r.tbl
       /\ objs' = r.ob
    /\ rl' = [rl EXCEPT ![s].pc = "done"]
    /\ UNCHANGED <<flagVars, connection_negotiated, read_loop_finished,
                   reader_closed_exception, next_request_id, writer, auto, callers,
                   discs, conn, connects, cur, hist, streamVars>>

\* Lines 89-91 of async_disconnect: the writer, if there is one, is closed
\* (which the history of its session counts) and the field set to None.
WriterAfterDisconnect(w) == 0
CloseCounted(h, w) == IF w # 0 THEN [h EXCEPT ![w].closes = @ + 1] ELSE h

\* The task made at line 158 runs: lines 89-92 of async_disconnect.
AutoDisconnect(s) ==
    /\ auto[s] = "scheduled"
    /\ auto' = [auto EXCEPT ![s] = "ran"]
    /\ hist' = CloseCounted(hist, writer)
    /\ writer' = WriterAfterDisconnect(writer)
    /\ UNCHANGED <<flagVars, connection_negotiated, connection_negotiation_event,
                   read_loop_finished, reader_closed_exception, tableVars, rl,
                   callers, waiters, discs, conn, connects, cur, streamVars>>

\* ------------------------------------------------------------------ callers
\* The guard of _async_send_command (line 184), and the guard left out.
Unguarded(negotiated, send_now) == TRUE
Ready(negotiated, send_now) == negotiated \/ send_now

\* _get_next_request_id returning the counter as it was before line 191.
GetNextRequestIdStale(n) == n

\* _get_next_request_id: the counter is incremented, then returned.
GetNextRequestId(n) == n + 1

\* _async_send_request_and_await_response up to its first await that can
\* yield: lines 224-227 with _get_next_request_id, _add_request and
\* _async_send_command up to the drain at line 186.  own is the entry the
\* call made, obj the one its lookup at line 208 finds later.
SendRequest(c) ==
    /\ callers[c].pc = "idle"
    /\ LET id == GetNextRequestId(next_request_id)
           o == Len(objs) + 1
           raised(kind) == [pc |-> "done", id |-> id, own |-> o, obj |-> 0,
                            out |-> [kind |-> kind, val |-> None, exc |-> NoException]]
       IN /\ next_request_id' = id
          /\ responses_by_request_id' =
                [k \in DOMAIN responses_by_request_id \cup {id} |->
                    IF k = id THEN o ELSE responses_by_request_id[k]]
          /\ IF Ready(connection_negotiated, FALSE)
             THEN IF writer = 0
                  THEN /\ objs' = Append(objs, NewEntry(id, connects))
                       /\ callers' = [callers EXCEPT ![c] = raised("AttributeError")]
                  ELSE /\ objs' = Append(objs, [NewEntry(id, connects) EXCEPT
                                                   !.written = TRUE])
                       /\ callers' = [callers EXCEPT ![c] =
                             [pc |-> "drain", id |-> id, own |-> o, obj |-> 0,
                              out |-> NoOutcome]]
             ELSE /\ objs' = Append(objs, NewEntry(id, connects))
                  /\ callers' = [callers EXCEPT ![c] = raised("not_ready")]
    /\ UNCHANGED <<flagVars, connection_negotiated, connection_negotiation_event,
                   read_loop_finished, reader_closed_exception, writer, rl, auto,
                   waiters, discs, conn, connects, cur, hist, streamVars>>

\* The drain returns: line 228 and the lookup at line 208, which raises
\* KeyError when the table has no such key, then the wait of line 209.
DrainReturns(c) ==
    /\ callers[c].pc = "drain"
    /\ IF callers[c].id \in DOMAIN responses_by_request_id
       THEN callers' = [callers EXCEPT ![c].pc = "wait",
                                       ![c].obj = responses_by_request_id[callers[c].id]]
       ELSE callers' = [callers EXCEPT ![c].pc = "done",
                                       ![c].out = [kind |-> "KeyError", val |-> None,
                                                   exc |-> NoException]]
    /\ UNCHANGED <<flagVars, connection_negotiated, connection_negotiation_event,
                   read_loop_finished, reader_closed_exception, tableVars, writer, rl,
                   auto, waiters, discs, conn, connects, cur, hist, streamVars>>

\* The entry's event is set and the caller runs again: lines 210-219, 229.
GetResponse(c) ==
    /\ callers[c].pc = "wait"
    /\ objs[callers[c].obj].event
    /\ callers' = [callers EXCEPT ![c].pc = "done",
                                  ![c].out = Outcome(objs[callers[c].obj])]
    /\ UNCHANGED <<flagVars, connection_negotiated, connection_negotiation_event,
                   read_loop_finished, reader_closed_exception, tableVars, writer, rl,
                   auto, waiters, discs, conn, connects, cur, hist, streamVars>>

\* Lines 96-97, as the task w runs them.
Established(w) ==
    [waiters[w] EXCEPT
        !.pc = "done",
        !.out = IF reader_closed_exception # NoException THEN "raised" ELSE "ok",
        !.exc = reader_closed_exception,
        !.banner = (cur # 0 /\ hist[cur].ready_calls > 0),
        !.ended = (cur # 0 /\ rl[cur].pc \in {"disc_cb", "done"})]

\* async_wait_for_connection_establishment is called: Event.wait returns at
\* once when the event is set, and blocks otherwise.
WaitCall(w) ==
    /\ waiters[w].pc = "idle"
    /\ IF connection_negotiation_event
       THEN waiters' = [waiters EXCEPT ![w] =
                [Established(w) EXCEPT !.sess = cur, !.stale = FALSE, !.during_cb = FALSE]]
       ELSE waiters' = [waiters EXCEPT ![w] =
                [waiters[w] EXCEPT !.pc = "blocked", !.sess = cur, !.out = "none",
                                   !.exc = NoException, !.stale = FALSE,
                                   !.during_cb = FALSE, !.banner = FALSE,
                                   !.ended = FALSE]]
    /\ UNCHANGED <<flagVars, connection_negotiated, connection_negotiation_event,
                   read_loop_finished, reader_closed_exception, tableVars, writer, rl,
                   auto, callers, discs, conn, connects, cur, hist, streamVars>>

\* A task woken by Event.set runs again.
WaitReturns(w) ==
    /\ waiters[w].pc = "woken"
    /\ waiters' = [waiters EXCEPT ![w] = Established(w)]
    /\ UNCHANGED <<flagVars, connection_negotiated, connection_negotiation_event,
                   read_loop_finished, reader_closed_exception, tableVars, writer, rl,
                   auto, callers, discs, conn, connects, cur, hist, streamVars>>

\* What a caller of async_disconnect that began in session s finds on return:
\* whether that session's read loop has run to its end.
Unwound(s) == IF s = 0 \/ rl[s].pc = "done" THEN "unwound" ELSE "early"

\* async_disconnect is called: lines 89-92.
DisconnectCall(d) ==
    /\ discs[d].pc = "idle"
    /\ hist' = CloseCounted(hist, writer)
    /\ writer' = WriterAfterDisconnect(writer)
    /\ discs' = [discs EXCEPT ![d] =
          IF read_loop_finished
          THEN [pc |-> "done", sess |-> cur, ret |-> Unwound(cur)]
          ELSE [pc |-> "blocked", sess |-> cur, ret |-> "none"]]
    /\ UNCHANGED <<flagVars, connection_negotiated, connection_negotiation_event,
                   read_loop_finished, reader_closed_exception, tableVars, rl, auto,
                   callers, waiters, conn, connects, cur, streamVars>>

\* A caller of async_disconnect woken by _read_loop_finished.set() returns.
DisconnectReturns(d) ==
    /\ discs[d].pc = "woken"
    /\ discs' = [discs EXCEPT ![d].pc = "done", ![d].ret = Unwound(discs[d].sess)]
    /\ UNCHANGED <<flagVars, connection_negotiated, connection_negotiation_event,
                   read_loop_finished, reader_closed_exception, tableVars, writer, rl,
                   auto, callers, waiters, conn, connects, cur, hist, streamVars>>

\* ------------------------------------------------------------ async_connect
\* The history of a session whose read loop has run to its end.
NoHistory == [ready_calls |-> 0, disc_calls |-> 0, closes |-> 0, sent |-> <<>>,
              at_end |-> {}, cause |-> NoException]

\* Sessions follow one another: async_connect is called when no earlier read
\* loop is still reading (each is past line 163, in its disconnected
\* callback or done).  Lines 67-74, up to the await of open_connection.
\* The history of the sessions that are over is no longer kept.
ConnectBegin ==
    /\ conn = "idle"
    /\ connects < MaxConnects
    /\ \A s \in Sessions : rl[s].pc \in {"none", "disc_cb", "done"}
    /\ \A s \in Sessions : rl[s].pc = "disc_cb" => s = cur
    /\ conn' = "opening"
    /\ connects' = connects + 1
    /\ cur' = 0
    /\ user_prompt_received' = FALSE
    /\ password_prompt_received' = FALSE
    /\ connection_negotiated' = FALSE
    /\ connection_negotiation_event' = FALSE
    /\ reader_closed_exception' = NoException
    /\ next_request_id' = 0
    /\ responses_by_request_id' = EmptyTable
    /\ read_loop_finished' = FALSE
    /\ hist' = [s \in Sessions |-> IF rl[s].pc = "done" THEN NoHistory ELSE hist[s]]
    /\ UNCHANGED <<writer, objs, rl, auto, callers, waiters, discs, streamVars>>

\* open_connection returns: the reader and writer are stored (line 78) and
\* the shell, _read_loop, runs on the new connection.
ConnectOpened ==
    /\ conn = "opening"
    /\ conn' = "idle"
    /\ cur' = connects
    /\ writer' = connects
    /\ rl' = [rl EXCEPT ![connects].pc = "read"]
    /\ UNCHANGED <<flagVars, connection_negotiated, connection_negotiation_event,
                   read_loop_finished, reader_closed_exception, tableVars, auto,
                   callers, waiters, discs, connects, hist, streamVars>>

\* open_connection times out or fails: lines 84-85 raise ConnectionError.
ConnectFailed ==
    /\ conn = "opening"
    /\ conn' = "idle"
    /\ UNCHANGED <<flagVars, connection_negotiated, connection_negotiation_event,
                   read_loop_finished, reader_closed_exception, tableVars, writer, rl,
                   auto, callers, waiters, discs, connects, cur, hist, streamVars>>

\* ---------------------------------------------------------------- the server
\* A response line: a head, a body and the newline.  Lines: every line
\* without an id or with the id of one of two requests.
Line(h, b) == <<h, b, "\n">>
Lines == {Line(h, b) : h \in {"{", "{id:1,", "{id:2,"}, b \in DOMAIN BodyMember}
Handshake == {USER_PROMPT, PASSWORD_PROMPT, CONNECTED_NOTIFICATION}

\* The server sends one chunk and the read loop of session s takes it: one
\* of tokens while the session has not shown its banner, one of lines after.
Serve(s, tokens, lines) ==
    /\ script = <<>>
    /\ \E chunk \in (IF hist[s].ready_calls = 0 THEN tokens ELSE lines) :
          ReadChunk(s, chunk)
    /\ UNCHANGED <<wire, script>>

\* What the read loop and the task it makes do without the server.
ReadLoop ==
    \/ \E s \in Sessions : ReadEOF(s)
    \/ \E s \in Sessions : ReadyCallbackReturns(s)
    \/ \E s \in Sessions : DisconnectedCallbackReturns(s)
    \/ \E s \in Sessions : AutoDisconnect(s)

\* One session: two callers and a caller of async_disconnect, with a server
\* that sends any handshake token, then any line.
NextSession ==
    \/ \E s \in Sessions : Serve(s, Handshake, Lines \cup {<<"{", "\n">>})
    \/ ReadLoop
    \/ \E c \in {"c1", "c2"} : SendRequest(c)
    \/ \E c \in {"c1", "c2"} : DrainReturns(c)
    \/ \E c \in {"c1", "c2"} : GetResponse(c)
    \/ DisconnectCall("d1")
    \/ DisconnectReturns("d1")
    \/ (connects = 0 /\ ConnectBegin)
    \/ ConnectOpened
    \/ ConnectFailed

SpecSession == Init /\ [][NextSession]_vars

\* The callers are alike: they make their calls in the order c1, c2, c3.
Before(c) == CASE c = "c1" -> {} [] c = "c2" -> {"c1"} [] OTHER -> {"c1", "c2"}

\* Sessions one after another, with three callers and a server that sends
\* the banner at once, then answers request 1 with a result and request 2
\* with an error, and closes the stream when it likes.  No input makes the
\* read loop raise, so the disconnect task of line 158 is never made.
NextReconnect ==
    \/ \E s \in Sessions :
          Serve(s, {CONNECTED_NOTIFICATION},
                {Line("{id:1,", "result:0}"), Line("{id:2,", "error:busy}")})
    \/ \E s \in Sessions : ReadEOF(s)
    \/ \E s \in Sessions : ReadyCallbackReturns(s)
    \/ \E s \in Sessions : DisconnectedCallbackReturns(s)
    \/ \E c \in Callers :
          (\A b \in Before(c) : callers[b].pc # "idle") /\ SendRequest(c)
    \/ \E c \in Callers : DrainReturns(c)
    \/ \E c \in Callers : GetResponse(c)
    \/ ConnectBegin
    \/ ConnectOpened
    \/ ConnectFailed

SpecReconnect == Init /\ [][NextReconnect]_vars

\* Sessions one after another, with a caller of
\* async_wait_for_connection_establishment.
NextEstablish ==
    \/ \E s \in Sessions : Serve(s, Handshake, {Line("{id:1,", "result:0}")})
    \/ ReadLoop
    \/ \E w \in Waiters : WaitCall(w)
    \/ \E w \in Waiters : WaitReturns(w)
    \/ ConnectBegin
    \/ ConnectOpened
    \/ ConnectFailed

SpecEstablish == Init /\ [][NextEstablish]_vars

\* Sessions one after another, with two callers of async_disconnect.
NextDisconnect ==
    \/ \E s \in Sessions : Serve(s, Handshake, {Line("{id:1,", "result:0}")})
    \/ ReadLoop
    \/ \E d \in Disconnectors : DisconnectCall(d)
    \/ \E d \in Disconnectors : DisconnectReturns(d)
    \/ ConnectBegin
    \/ ConnectOpened
    \/ ConnectFailed

SpecDisconnect == Init /\ [][NextDisconnect]_vars

\* The same with the event loop's scheduling: a task that can run does run
\* (a callback returns, a woken caller resumes, the disconnect task runs),
\* and a read that can return end-of-stream does.
SpecDisconnectFair ==
    /\ SpecDisconnect
    /\ WF_vars(ReadLoop)
    /\ \A d \in Disconnectors : WF_vars(DisconnectReturns(d))

\* ------------------------------------------------------- scripted streams
\* An inbound byte stream given as the list of its units: handshake tokens,
\* then newline-terminated lines.
Scripts ==
    { <<USER_PROMPT, PASSWORD_PROMPT, CONNECTED_NOTIFICATION,
        Line("{id:1,", "result:0}"), Line("{id:2,", "error:busy}")>>,
      <<USER_PROMPT, USER_PROMPT>>,
      <<USER_PROMPT, PASSWORD_PROMPT, PASSWORD_PROMPT>>,
      <<PASSWORD_PROMPT>> }

RECURSIVE Flatten(_)
Flatten(units) == IF units = <<>> THEN <<>> ELSE Head(units) \o Flatten(Tail(units))

InitStream ==
    /\ InitClient
    /\ script \in Scripts
    /\ wire = Flatten(script)
    /\ trace = <<>>

\* reader.read(1024) returns the next n symbols of the stream, any n >= 1.
Deliver(s, n) ==
    /\ script # <<>>
    /\ n \in 1..Len(wire)
    /\ ReadChunk(s, SubSeq(wire, 1, n))
    /\ wire' = Drop(wire, n)

\* One session fed a scripted stream cut into chunks at any places.
NextStream ==
    \/ \E s \in Sessions : \E n \in 1..Len(wire) : Deliver(s, n)
    \/ ReadLoop
    \/ (connects = 0 /\ ConnectBegin)
    \/ ConnectOpened

SpecStream == InitStream /\ [][NextStream]_vars

\* ------------------------------------------------- banner and lines at once
\* Chunks that hold the banner and, right after it, complete lines and
\* sometimes the beginning of another.
BannerChunks ==
    { CONNECTED_NOTIFICATION \o Line("{id:1,", "result:0}"),
      CONNECTED_NOTIFICATION \o Line("{id:1,", "result:0}")
                             \o Line("{id:1,", "error:busy}"),
      CONNECTED_NOTIFICATION \o Line("{id:2,", "error:busy}")
                             \o Line("{id:1,", "result:0}") \o <<"{id:1,">>,
      CONNECTED_NOTIFICATION \o Line("{id:1,", "error:busy}")
                             \o <<"{id:2,", "result:0}">> }

\* One session whose server sends one such chunk and nothing more, with
\* two callers, who can make their requests while the ready callback runs.
NextBanner ==
    \/ \E s \in Sessions : Serve(s, BannerChunks, {})
    \/ \E s \in Sessions : ReadEOF(s)
    \/ \E s \in Sessions : ReadyCallbackReturns(s)
    \/ \E s \in Sessions : DisconnectedCallbackReturns(s)
    \/ \E c \in {"c1", "c2"} :
          (\A b \in Before(c) : callers[b].pc # "idle") /\ SendRequest(c)
    \/ \E c \in {"c1", "c2"} : DrainReturns(c)
    \/ \E c \in {"c1", "c2"} : GetResponse(c)
    \/ (connects = 0 /\ ConnectBegin)
    \/ ConnectOpened

SpecBanner == Init /\ [][NextBanner]_vars

\* -------------------------------------------------------------- properties
FourOutcomes == {"result", "error_response", "connection_closed", "not_ready"}

\* C1: when a read loop has run to its end, every request that was in the
\* table when the loop ended (line 162) has been completed by the loop of
\* lines 167-170 with the exception that read loop recorded.
C1_PendingAtEndAreClosed ==
    \A s \in Sessions :
        rl[s].pc = "done" =>
            \A o \in hist[s].at_end :
                /\ objs[o].event
                /\ objs[o].how = "closed"
                /\ objs[o].reader_closed_exception.s = s

\* C2: a call of _async_send_request_and_await_response whose request was
\* written to the transport ends by returning the result or failing with
\* error-response, connection-closed or not-ready, and in no other way.
C2_EndsInOneOfFourWays ==
    \A c \in Callers :
        (callers[c].pc = "done" /\ objs[callers[c].own].written)
            => callers[c].out.kind \in FourOutcomes

\* C3: the caller that awaited an entry observes what was delivered to it:
\* the result payload after a result line, error-response after an error
\* line, connection-closed after the read loop closed it.
C3_ObservedIsDelivered ==
    \A c \in Callers :
        (callers[c].pc = "done" /\ callers[c].obj # 0) =>
            LET e == objs[callers[c].obj] IN
            /\ e.how = "result" =>
                  (callers[c].out.kind = "result" /\ callers[c].out.val = e.response)
            /\ e.how = "error" => callers[c].out.kind = "error_response"
            /\ e.how = "closed" => callers[c].out.kind = "connection_closed"

\* C4: in every session the connection-ready callback is called at most
\* once, and no caller blocked in async_wait_for_connection_establishment
\* is released while the ready callback of the current session is still
\* running.
C4_ReadyOnceBeforeRelease ==
    /\ \A s \in Sessions : hist[s].ready_calls <= 1
    /\ \A w \in Waiters : ~waiters[w].during_cb

\* C5: a call of async_wait_for_connection_establishment that has returned
\* was not released by the read loop of an earlier session, returned
\* normally only if the banner was accepted in the current session, and
\* raised if the current session's read loop had ended.
C5_WaitFollowsCurrentSession ==
    \A w \in Waiters :
        waiters[w].pc = "done" =>
            /\ ~waiters[w].stale
            /\ waiters[w].out = "ok" => waiters[w].banner
            /\ waiters[w].ended => waiters[w].out = "raised"

HandshakeCauses == {"InvalidUserException", "Exception", "InvalidPasswordException"}

\* C6: a session that a handshake violation ended never called the ready
\* callback, sent no credential for the offending prompt, and every caller
\* that was blocked in async_wait_for_connection_establishment during that
\* session raises the cause the disconnected callback was given.
C6_HandshakeFailureDelivered ==
    \A s \in Sessions :
        hist[s].cause.inner \in HandshakeCauses =>
            /\ hist[s].ready_calls = 0
            /\ hist[s].cause.inner = "InvalidUserException" =>
                  hist[s].sent \in {<<"user">>, <<"user", "password">>}
            /\ hist[s].cause.inner = "Exception" => hist[s].sent = <<>>
            /\ hist[s].cause.inner = "InvalidPasswordException" =>
                  hist[s].sent = <<"user", "password">>
            /\ \A w \in Waiters :
                  (waiters[w].pc = "done" /\ waiters[w].sess = s) =>
                      (waiters[w].out = "raised" /\ waiters[w].exc = hist[s].cause)

\* C7: the identifiers handed out after one call of async_connect are
\* 1, 2, 3, ... in the order of the requests: each request's identifier is
\* the number of requests made so far since that call, so none repeats
\* and the first after a new call is 1.
C7_IdsCountFromOne ==
    \A o \in 1..Len(objs) :
        objs[o].id = Cardinality({p \in 1..o : objs[p].epoch = objs[o].epoch})

\* C7 witness: a second request got identifier 2, and a later request,
\* made after async_connect was called again, got identifier 1.
C7_Witness ==
    \E o, p \in 1..Len(objs) :
        /\ o < p
        /\ objs[o].epoch = 1 /\ objs[o].id = 2
        /\ objs[p].epoch = 2 /\ objs[p].id = 1

\* C8: with two calls of async_disconnect, the writer of a session is
\* closed at most once, its disconnected callback is called at most once,
\* and each call that waits returns in the end.
C8_TwiceAsOnce ==
    /\ [](\A s \in Sessions : hist[s].closes <= 1 /\ hist[s].disc_calls <= 1)
    /\ \A d \in Disconnectors : (discs[d].pc = "blocked") ~> (discs[d].pc = "done")

\* C9: when a call of async_disconnect made during a session returns, the
\* read loop of that session has run to its end: the disconnected callback
\* has returned and the table has been drained.
C9_ReturnsAfterUnwound ==
    \A d \in Disconnectors : discs[d].ret # "early"

\* The units the read loop acts on when each unit of the stream arrives as a
\* chunk of its own: the prompts answered up to the first that raises, or
\* up to the banner, and then the banner and every line without its newline.
RECURSIVE UnitTrace(_, _, _)
UnitTrace(units, upr, ppr) ==
    IF units = <<>> THEN <<>>
    ELSE LET n == Negotiate(upr, ppr, Head(units)) IN
         CASE n.act = "raise" -> <<>>
           [] n.act = "ready" ->
                <<Head(units)>> \o [i \in 1..(Len(units) - 1) |->
                                        SubSeq(units[i + 1], 1, Len(units[i + 1]) - 1)]
           [] OTHER -> <<Head(units)>> \o UnitTrace(Tail(units), n.upr, n.ppr)

\* C10: once every symbol of a scripted stream has been read, whatever the
\* chunks were, the units acted on are those acted on when each unit is a
\* chunk, and a read loop waiting for more has nothing left in its buffer.
C10_ChunkingInvariant ==
    (script # <<>> /\ wire = <<>> /\ cur # 0 /\ rl[cur].pc \in {"read", "disc_cb", "done"}) =>
        /\ trace = UnitTrace(script, FALSE, FALSE)
        /\ rl[cur].pc = "read" => rl[cur].output = <<>>

\* C11: no inbound JSON line ends a session: the read loop of a session is
\* never stopped by a member missing from a line (a line of neither shape
\* is a miss and the loop keeps reading).
C11_NoLineEndsSession ==
    \A s \in Sessions : hist[s].cause.inner # "KeyError"

\* C12: every key of the table names the entry of a request that was
\* written to the transport and has no outcome yet.
C12_TableHoldsSentUnanswered ==
    \A k \in DOMAIN responses_by_request_id :
        /\ objs[responses_by_request_id[k]].written
        /\ ~objs[responses_by_request_id[k]].event

\* C13: a step in which an error line completes the entry of a pending
\* request removes that key and no other, leaves every other entry as it
\* was, keeps the session negotiated and every read loop where it was,
\* records no cause, calls no disconnected callback, and a caller waiting
\* on the entry gets error-response from it.
C13_ErrorReplyFrame ==
    [][\A o \in 1..Len(objs) :
          (objs[o].how = "none" /\ objs'[o].how = "error") =>
              /\ \A k \in DOMAIN responses_by_request_id :
                    IF responses_by_request_id[k] = o
                    THEN k \notin DOMAIN responses_by_request_id'
                    ELSE /\ k \in DOMAIN responses_by_request_id'
                         /\ responses_by_request_id'[k] = responses_by_request_id[k]
              /\ \A p \in 1..Len(objs) : p # o => objs'[p] = objs[p]
              /\ connection_negotiated'
              /\ \A s \in Sessions : rl'[s].pc = rl[s].pc
              /\ reader_closed_exception' = reader_closed_exception
              /\ \A s \in Sessions : hist'[s].disc_calls = hist[s].disc_calls
              /\ \A c \in Callers :
                    (callers[c].pc = "wait" /\ callers[c].obj = o) =>
                        Outcome(objs'[o]).kind = "error_response"
      ]_vars

\* C14: the step in which the read loop of a session ends is the one call
\* of its disconnected callback: the session is not negotiated any more,
\* the callback gets the cause the client records, made by that session
\* and wrapping an exception exactly when the except clause ran (the
\* disconnect task was made), and no request pending then has an outcome.
\* The count changes in no other step while the session is remembered, and
\* an entry is given a connection-closed cause only while the read loop
\* that made the cause is past the call of its callback.
C14_DisconnectedCalledOnce ==
    [][/\ \A s \in Sessions :
            IF rl[s].pc # "disc_cb" /\ rl'[s].pc = "disc_cb"
            THEN /\ hist[s].disc_calls = 0 /\ hist'[s].disc_calls = 1
                 /\ ~connection_negotiated'
                 /\ hist'[s].cause = reader_closed_exception'
                 /\ hist'[s].cause.s = s
                 /\ (hist'[s].cause.inner # None) <=>
                        (auto[s] = "none" /\ auto'[s] = "scheduled")
                 /\ \A o \in hist'[s].at_end : ~objs'[o].event
            ELSE hist'[s].disc_calls # hist[s].disc_calls => rl[s].pc = "done"
       /\ \A o \in 1..Len(objs) :
            objs'[o].reader_closed_exception # objs[o].reader_closed_exception =>
                \/ objs'[o].reader_closed_exception = NoException
                \/ rl[objs'[o].reader_closed_exception.s].pc \in {"disc_cb", "done"}
      ]_vars

\* C14 witness: a read loop that an exception stopped with a request
\* pending has called its callback once and then closed the request.
C14_Witness ==
    \E s \in Sessions :
        /\ rl[s].pc = "done"
        /\ hist[s].disc_calls = 1
        /\ hist[s].cause.inner # None
        /\ \E o \in hist[s].at_end :
              objs[o].written /\ objs[o].reader_closed_exception = hist[s].cause

\* The current session is operational: its banner was accepted and its
\* read loop has not ended.
Operational ==
    cur # 0 /\ hist[cur].ready_calls = 1 /\ rl[cur].pc \in {"read", "ready_cb"}

\* C15: a request attempted while the current session is not operational
\* fails at once with not-ready and is not written, and what a session's
\* read loop writes is at most the user, then the password.
C15_NotReadyWritesNothing ==
    /\ [](\A s \in Sessions :
            hist[s].sent \in {<<>>, <<"user">>, <<"user", "password">>})
    /\ [][\A c \in Callers :
            (callers[c].pc = "idle" /\ callers'[c].pc # "idle" /\ ~Operational) =>
                /\ callers'[c].pc = "done"
                /\ callers'[c].out.kind = "not_ready"
                /\ ~objs'[callers'[c].own].written
                /\ hist' = hist
         ]_vars

\* C15 witness: a request made after the first call of async_connect was
\* refused as not ready and not written, in a session whose read loop
\* had sent a credential.
C15_Witness ==
    \E c \in Callers :
        /\ callers[c].pc = "done"
        /\ callers[c].out.kind = "not_ready"
        /\ objs[callers[c].own].epoch = 1
        /\ ~objs[callers[c].own].written
        /\ hist[1].sent # <<>>

\* C16: a session whose banner was accepted (operational) has had the user
\* and then the password transmitted, once each, and nothing else.
C16_OperationalAfterCredentials ==
    \A s \in Sessions :
        hist[s].ready_calls > 0 => hist[s].sent = <<"user", "password">>

\* The places of the newlines in a text, the line that ends at one of them,
\* the text after the last, and the newlines whose line names request k.
Newlines(text) == {i \in 1..Len(text) : text[i] = "\n"}
LineEndingAt(text, p) ==
    LET before == {q \in Newlines(text) : q < p}
        start == IF before = {} THEN 1
                 ELSE (CHOOSE q \in before : \A r \in before : r <= q) + 1
    IN SubSeq(text, start, p - 1)
AfterLastNewline(text) ==
    IF Newlines(text) = {} THEN text
    ELSE SubSeq(text, (CHOOSE q \in Newlines(text) : \A r \in Newlines(text) : r <= q) + 1,
                Len(text))
Naming(text, k) ==
    {p \in Newlines(text) :
        LET l == LineEndingAt(text, p) IN
        Len(l) = 2 /\ l[1] \in DOMAIN HeadId /\ HeadId[l[1]] = k}

\* C17: the step that accepts the banner calls the ready callback and
\* dispatches nothing; the step in which the callback returns dispatches
\* the complete lines that followed the banner in the chunk, with no
\* further read: every pending request named by a line gets the payload of
\* the first such line and leaves the table, the others are untouched, and
\* the text after the last newline is what the loop keeps.
C17_BannerThenLines ==
    [][\A s \in Sessions :
          /\ (rl[s].pc = "read" /\ rl'[s].pc = "ready_cb") =>
                /\ hist'[s].ready_calls = hist[s].ready_calls + 1
                /\ objs' = objs
                /\ responses_by_request_id' = responses_by_request_id
          /\ (rl[s].pc = "ready_cb" /\ rl'[s].pc # "ready_cb") =>
                /\ rl'[s].pc = "read"
                /\ rl'[s].output = AfterLastNewline(rl[s].output)
                /\ \A k \in DOMAIN responses_by_request_id :
                      LET o == responses_by_request_id[k]
                          ps == Naming(rl[s].output, k)
                      IN IF ps = {}
                         THEN /\ k \in DOMAIN responses_by_request_id'
                              /\ objs'[o] = objs[o]
                         ELSE LET p == CHOOSE q \in ps : \A r \in ps : q <= r
                                  m == BodyMember[LineEndingAt(rl[s].output, p)[2]]
                              IN /\ k \notin DOMAIN responses_by_request_id'
                                 /\ objs'[o].event
                                 /\ objs'[o].response =
                                       (IF m.key = "result" THEN m.val ELSE None)
                                 /\ objs'[o].error_response =
                                       (IF m.key = "error" THEN m.val ELSE None)
      ]_vars

\* C17 witness: a request made while the ready callback ran was given the
\* result that came in the banner's chunk, the request after it is still
\* pending, and the loop kept the beginning of the next line.
C17_Witness ==
    /\ cur # 0 /\ rl[cur].pc = "read" /\ rl[cur].output = <<"{id:1,">>
    /\ Len(objs) = 2
    /\ objs[1].written /\ objs[1].event /\ objs[1].response = "0"
    /\ objs[2].written /\ ~objs[2].event

\* C18: once async_connect has been called again, the steps left of an
\* earlier session (the end of its read loop after the disconnected
\* callback, and the disconnect task its exception made) change none of
\* the prompt flags, the negotiated flag, the two events, the recorded
\* cause, the table, its entries or the writer.
C18_NoLeakAcrossSessions ==
    [][\A s \in Sessions :
          (/\ s < connects
           /\ \/ rl[s].pc = "disc_cb" /\ rl'[s].pc = "done"
              \/ auto[s] = "scheduled" /\ auto'[s] = "ran") =>
              /\ user_prompt_received' = user_prompt_received
              /\ password_prompt_received' = password_prompt_received
              /\ connection_negotiated' = connection_negotiated
              /\ connection_negotiation_event' = connection_negotiation_event
              /\ read_loop_finished' = read_loop_finished
              /\ reader_closed_exception' = reader_closed_exception
              /\ responses_by_request_id' = responses_by_request_id
              /\ objs' = objs
              /\ writer' = writer
      ]_vars

\* C19: an entry is written at most once: no entry with an outcome is a
\* value of the table, and an entry that has its outcome never changes
\* again, whatever lines and whatever end of session follow.
C19_OneCompletionWrite ==
    /\ [](\A o \in 1..Len(objs) : objs[o].writes <= 1 /\ (objs[o].event <=> objs[o].writes = 1))
    /\ [](\A k \in DOMAIN responses_by_request_id :
            ~objs[responses_by_request_id[k]].event)
    /\ [][\A o \in 1..Len(objs) : objs[o].event => objs'[o] = objs[o]]_vars

\* C19 witness: a session has ended and drained its table; one request had
\* its result from a line before that and kept it, another was closed by
\* the drain.
C19_Witness ==
    \E s \in Sessions :
        /\ rl[s].pc = "done"
        /\ \E o, p \in 1..Len(objs) :
              /\ objs[o].how = "result" /\ objs[o].writes = 1
              /\ objs[o].reader_closed_exception = NoException
              /\ objs[p].how = "closed" /\ objs[p].writes = 1
              /\ objs[p].written

\* C20, on a client that was never connected: a call of async_disconnect
\* that waits returns in the end, or async_connect is called meanwhile.
C20_DisconnectReturns ==
    \A d \in Disconnectors :
        (discs[d].pc = "blocked" /\ connects = 0)
            ~> (discs[d].pc = "done" \/ connects > 0)
====
